---- MODULE Spec2Model ----
(***************************************************************************)
(* Model of src-tauri/tools/trainer/train.py: the QLoRA training launcher. *)
(* train() is straight-line code; every statement that calls an external   *)
(* library either returns or raises.  The state is the launcher's local    *)
(* variables, its position, what it printed, the record of external calls  *)
(* (what a stub registry would record) and the process outcome.            *)
(***************************************************************************)
EXTENDS Integers, Sequences, FiniteSets, TLC

VARIABLES pc, fileExists, calls, out, bnb_config, model, tokenizer, peft_config,
          dataset, training_args, trainer, saved, exitCode, unhandled,
          raisedExc, handlerExc, loadedModel, loadedTokenizer

vars == <<pc, fileExists, calls, out, bnb_config, model, tokenizer, peft_config,
          dataset, training_args, trainer, saved, exitCode, unhandled,
          raisedExc, handlerExc, loadedModel, loadedTokenizer>>

\* ---- module-level configuration (train.py:16-18) ----
MODEL_ID == "mistralai/Mistral-7B-Instruct-v0.2"
NEW_MODEL_NAME == "genaptitude-lora-adapter"
DATASET_FILE == "dataset.jsonl"

\* ---- bounds on what the external registry may hand back ----
\* pretraining_tp of a freshly loaded model ranges over 1..MaxPretrainingTp
MaxPretrainingTp == 2
\* a SystemExit raised by a library carries a status in 0..MaxSystemExitCode
MaxSystemExitCode == 3

\* Python's None, for values that are strings or None
None == "None"
\* an unbound local is <<>>, a bound one is <<value>>
Unbound == << >>
Bound(v) == <<v>>
Val(opt) == opt[1]

EosTokens == {"</s>", "<|endoftext|>"}
PadTokens == {None, "<pad>"} \cup EosTokens
PaddingSides == {"left", "right"}

\* a decimal literal m * 10^e
Dec(m, e) == [mant |-> m, exp |-> e]

\* ---- the literal configuration objects ----
\* BitsAndBytesConfig(...) at train.py:30-34
BitsAndBytesConfigLit ==
    [load_in_4bit |-> TRUE,
     bnb_4bit_quant_type |-> "nf4",
     bnb_4bit_compute_dtype |-> "torch.float16"]

\* LoraConfig(...) at train.py:55-62
LoraConfigLit ==
    [lora_alpha |-> 16,
     lora_dropout |-> Dec(1, -1),
     r |-> 64,
     bias |-> "none",
     task_type |-> "CAUSAL_LM",
     target_modules |-> <<"q_proj", "k_proj", "v_proj", "o_proj", "gate_proj">>]

\* variant: three epochs
TrainingArgumentsLit_ThreeEpochs ==
    [output_dir |-> "./results",
     num_train_epochs |-> 3,
     per_device_train_batch_size |-> 4,
     gradient_accumulation_steps |-> 1,
     optim |-> "paged_adamw_32bit",
     save_steps |-> 50,
     logging_steps |-> 10,
     learning_rate |-> Dec(2, -4),
     weight_decay |-> Dec(1, -3),
     fp16 |-> TRUE,
     bf16 |-> FALSE,
     max_grad_norm |-> Dec(3, -1),
     max_steps |-> -1,
     warmup_ratio |-> Dec(3, -2),
     group_by_length |-> TRUE,
     lr_scheduler_type |-> "constant"]

\* TrainingArguments(...) at train.py:72-89
TrainingArgumentsLit ==
    [output_dir |-> "./results",
     num_train_epochs |-> 1,
     per_device_train_batch_size |-> 4,
     gradient_accumulation_steps |-> 1,
     optim |-> "paged_adamw_32bit",
     save_steps |-> 50,
     logging_steps |-> 10,
     learning_rate |-> Dec(2, -4),
     weight_decay |-> Dec(1, -3),
     fp16 |-> TRUE,
     bf16 |-> FALSE,
     max_grad_norm |-> Dec(3, -1),
     max_steps |-> -1,
     warmup_ratio |-> Dec(3, -2),
     group_by_length |-> TRUE,
     lr_scheduler_type |-> "constant"]

\* ---- the external calls, in program order ----
F_Bnb == "BitsAndBytesConfig"
F_Model == "AutoModelForCausalLM.from_pretrained"
F_Tok == "AutoTokenizer.from_pretrained"
F_Lora == "LoraConfig"
F_Prepare == "prepare_model_for_kbit_training"
F_Attach == "get_peft_model"
F_Dataset == "load_dataset"
F_Args == "TrainingArguments"
F_Trainer == "SFTTrainer"
F_Train == "trainer.train"
F_Save == "trainer.model.save_pretrained"

\* ---- what an operation on an external object may raise ----
\* Exception stands for every class derived from Exception; the other three
\* derive from BaseException only.  code is the SystemExit status, else 0.
Exc(c) == [class |-> c, code |-> 0]
SystemExitOf(n) == [class |-> "SystemExit", code |-> n]
NoExc == [class |-> "none", code |-> 0]
Raisable ==
    {Exc("Exception"), Exc("KeyboardInterrupt"), Exc("GeneratorExit")}
        \cup {SystemExitOf(n) : n \in 0..MaxSystemExitCode}
\* isinstance(e, Exception), the test of the except clause at train.py:46
IsException(e) == e.class = "Exception"

Returned(f) == [fn |-> f, result |-> "returned", exc |-> NoExc]
Raised(f, e) == [fn |-> f, result |-> "raised", exc |-> e]

\* the external call made by the statement at each position outside the
\* try block, and what that statement prints before making the call
CallAt(p) ==
    CASE p = "bnb" -> F_Bnb
      [] p = "load_tokenizer" -> F_Tok
      [] p = "lora" -> F_Lora
      [] p = "prepare" -> F_Prepare
      [] p = "attach" -> F_Attach
      [] p = "load_dataset" -> F_Dataset
      [] p = "training_args" -> F_Args
      [] p = "trainer" -> F_Trainer
      [] p = "train" -> F_Train
      [] p = "save" -> F_Save

UnguardedCallPcs == {"bnb", "load_tokenizer", "lora", "prepare", "attach",
                     "load_dataset", "training_args", "trainer", "train", "save"}

PrintsBefore(p) ==
    CASE p = "load_dataset" -> <<"loading_dataset">>
      [] p = "train" -> <<"start_finetuning">>
      [] p = "save" -> <<"saving_adapter">>
      [] OTHER -> << >>

\* ---- initial state: process started, train() not yet entered ----
Init ==
    /\ pc = "check"
    /\ fileExists \in BOOLEAN
    /\ calls = << >>
    /\ out = << >>
    /\ bnb_config = Unbound
    /\ model = Unbound
    /\ tokenizer = Unbound
    /\ peft_config = Unbound
    /\ dataset = Unbound
    /\ training_args = Unbound
    /\ trainer = Unbound
    /\ saved = << >>
    /\ exitCode = Unbound
    /\ unhandled = FALSE
    /\ raisedExc = Unbound
    /\ handlerExc = Unbound
    /\ loadedModel = Unbound
    /\ loadedTokenizer = Unbound

\* variant: the exit status is dropped, as with a bare sys.exit()
SysExit_StatusDropped(code) ==
    /\ pc' = "exited"
    /\ exitCode' = Bound(0)
    /\ unhandled' = FALSE

\* sys.exit(code): SystemExit is caught by nothing in this script
SysExit(code) ==
    /\ pc' = "exited"
    /\ exitCode' = Bound(code)
    /\ unhandled' = FALSE

\* the status the interpreter ends with when e leaves the script uncaught:
\* SystemExit(n) gives n, KeyboardInterrupt kills the process with SIGINT
\* (seen as -2 by the parent, 130 by a shell), anything else gives 1
UncaughtStatus(e) ==
    CASE e.class = "SystemExit" -> e.code
      [] e.class = "KeyboardInterrupt" -> -2
      [] OTHER -> 1

\* a traceback is printed for everything but SystemExit
UncaughtTraceback(e) == e.class # "SystemExit"

\* e leaves train() and the script: nothing catches it
Propagate(e) ==
    /\ pc' = "exited"
    /\ exitCode' = Bound(UncaughtStatus(e))
    /\ unhandled' = UncaughtTraceback(e)
    /\ raisedExc' = Bound(e)
    /\ UNCHANGED handlerExc

\* e is raised inside the try block of train.py:38-48.  The handler takes
\* instances of Exception only; anything else passes through it.  In the
\* handler, line 47 formats e into the message (str(e), code of the
\* exception's class) and prints it: that either succeeds, and sys.exit(1)
\* follows, or raises h, which leaves the script uncaught with nothing
\* printed and line 48 not run.
RaiseInTry(e, printed) ==
    IF IsException(e)
      THEN \/ /\ out' = out \o printed \o <<"err_model_load">>
              /\ SysExit(1)
              /\ raisedExc' = Bound(e)
              /\ UNCHANGED handlerExc
           \/ \E h \in Raisable :
                /\ out' = out \o printed
                /\ pc' = "exited"
                /\ exitCode' = Bound(UncaughtStatus(h))
                /\ unhandled' = UncaughtTraceback(h)
                /\ raisedExc' = Bound(e)
                /\ handlerExc' = Bound(h)
      ELSE /\ out' = out \o printed
           /\ Propagate(e)

Goto(p) ==
    /\ pc' = p
    /\ UNCHANGED <<exitCode, unhandled, raisedExc, handlerExc>>

\* variant: the diagnostic is printed but the sys.exit(1) is missing
DatasetMissing_NoExit ==
    /\ pc = "check"
    /\ ~fileExists
    /\ out' = out \o <<"init", "err_dataset_missing", "hint_export">>
    /\ pc' = "bnb"
    /\ UNCHANGED <<exitCode, unhandled, raisedExc, handlerExc>>
    /\ UNCHANGED <<fileExists, calls, bnb_config, model, tokenizer, peft_config,
                   dataset, training_args, trainer, saved, loadedModel,
                   loadedTokenizer>>

\* train.py:21-27, the file is absent
DatasetMissing ==
    /\ pc = "check"
    /\ ~fileExists
    /\ out' = out \o <<"init", "err_dataset_missing", "hint_export">>
    /\ SysExit(1)
    /\ UNCHANGED <<raisedExc, handlerExc>>
    /\ UNCHANGED <<fileExists, calls, bnb_config, model, tokenizer, peft_config,
                   dataset, training_args, trainer, saved, loadedModel,
                   loadedTokenizer>>

\* train.py:21-24, the file is present
DatasetPresent ==
    /\ pc = "check"
    /\ fileExists
    /\ out' = Append(out, "init")
    /\ Goto("bnb")
    /\ UNCHANGED <<fileExists, calls, bnb_config, model, tokenizer, peft_config,
                   dataset, training_args, trainer, saved, loadedModel,
                   loadedTokenizer>>

\* train.py:30-34
BuildBnbConfig ==
    /\ pc = "bnb"
    /\ calls' = Append(calls, Returned(F_Bnb))
    /\ bnb_config' = Bound(BitsAndBytesConfigLit)
    /\ Goto("load_model")
    /\ UNCHANGED <<fileExists, out, model, tokenizer, peft_config, dataset,
                   training_args, trainer, saved, loadedModel, loadedTokenizer>>

\* train.py:37-43, the registry returns a model with arbitrary config flags
FromPretrainedOk ==
    /\ pc = "load_model"
    /\ \E uc \in BOOLEAN, tp \in 1..MaxPretrainingTp :
         LET m == [id |-> MODEL_ID,
                   quantization_config |-> Val(bnb_config),
                   device_map |-> "auto",
                   use_cache |-> uc,
                   pretraining_tp |-> tp,
                   prepared |-> FALSE,
                   peft_config |-> Unbound]
         IN /\ model' = Bound(m)
            /\ loadedModel' = Bound(m)
    /\ out' = Append(out, "loading_model")
    /\ calls' = Append(calls, Returned(F_Model))
    /\ Goto("set_use_cache")
    /\ UNCHANGED <<fileExists, bnb_config, tokenizer, peft_config, dataset,
                   training_args, trainer, saved, loadedTokenizer>>

\* variant: no try/except around the acquisition
FromPretrainedRaises_Unguarded ==
    /\ pc = "load_model"
    /\ \E e \in Raisable :
         /\ calls' = Append(calls, Raised(F_Model, e))
         /\ out' = Append(out, "loading_model")
         /\ Propagate(e)
    /\ UNCHANGED <<fileExists, bnb_config, model, tokenizer, peft_config,
                   dataset, training_args, trainer, saved, loadedModel,
                   loadedTokenizer>>

\* train.py:37-48, the registry raises inside the try block
FromPretrainedRaises ==
    /\ pc = "load_model"
    /\ \E e \in Raisable :
         /\ calls' = Append(calls, Raised(F_Model, e))
         /\ RaiseInTry(e, <<"loading_model">>)
    /\ UNCHANGED <<fileExists, bnb_config, model, tokenizer, peft_config,
                   dataset, training_args, trainer, saved, loadedModel,
                   loadedTokenizer>>

\* variant: the cache flag is switched on instead of off
SetUseCache_True ==
    /\ pc = "set_use_cache"
    /\ model' = Bound([Val(model) EXCEPT !.use_cache = TRUE])
    /\ pc' = "set_pretraining_tp"
    /\ UNCHANGED <<exitCode, unhandled, raisedExc, handlerExc>>
    /\ UNCHANGED <<fileExists, calls, out, bnb_config, tokenizer, peft_config,
                   dataset, training_args, trainer, saved, loadedModel,
                   loadedTokenizer>>

\* train.py:44
SetUseCache ==
    /\ pc = "set_use_cache"
    /\ model' = Bound([Val(model) EXCEPT !.use_cache = FALSE])
    /\ Goto("set_pretraining_tp")
    /\ UNCHANGED <<fileExists, calls, out, bnb_config, tokenizer, peft_config,
                   dataset, training_args, trainer, saved, loadedModel,
                   loadedTokenizer>>

\* train.py:45
SetPretrainingTp ==
    /\ pc = "set_pretraining_tp"
    /\ model' = Bound([Val(model) EXCEPT !.pretraining_tp = 1])
    /\ Goto("load_tokenizer")
    /\ UNCHANGED <<fileExists, calls, out, bnb_config, tokenizer, peft_config,
                   dataset, training_args, trainer, saved, loadedModel,
                   loadedTokenizer>>

\* train.py:50, the registry returns a tokenizer with arbitrary defaults
LoadTokenizer ==
    /\ pc = "load_tokenizer"
    /\ \E eos \in EosTokens, pad \in PadTokens, side \in PaddingSides :
         LET t == [id |-> MODEL_ID,
                   trust_remote_code |-> TRUE,
                   eos_token |-> eos,
                   pad_token |-> pad,
                   padding_side |-> side]
         IN /\ tokenizer' = Bound(t)
            /\ loadedTokenizer' = Bound(t)
    /\ calls' = Append(calls, Returned(F_Tok))
    /\ Goto("set_pad_token")
    /\ UNCHANGED <<fileExists, out, bnb_config, model, peft_config, dataset,
                   training_args, trainer, saved, loadedModel>>

\* train.py:51
SetPadToken ==
    /\ pc = "set_pad_token"
    /\ tokenizer' = Bound([Val(tokenizer) EXCEPT !.pad_token = Val(tokenizer).eos_token])
    /\ Goto("set_padding_side")
    /\ UNCHANGED <<fileExists, calls, out, bnb_config, model, peft_config,
                   dataset, training_args, trainer, saved, loadedModel,
                   loadedTokenizer>>

\* variant: padding on the left
SetPaddingSide_Left ==
    /\ pc = "set_padding_side"
    /\ tokenizer' = Bound([Val(tokenizer) EXCEPT !.padding_side = "left"])
    /\ pc' = "lora"
    /\ UNCHANGED <<exitCode, unhandled, raisedExc, handlerExc>>
    /\ UNCHANGED <<fileExists, calls, out, bnb_config, model, peft_config,
                   dataset, training_args, trainer, saved, loadedModel,
                   loadedTokenizer>>

\* train.py:52
SetPaddingSide ==
    /\ pc = "set_padding_side"
    /\ tokenizer' = Bound([Val(tokenizer) EXCEPT !.padding_side = "right"])
    /\ Goto("lora")
    /\ UNCHANGED <<fileExists, calls, out, bnb_config, model, peft_config,
                   dataset, training_args, trainer, saved, loadedModel,
                   loadedTokenizer>>

\* train.py:55-62
BuildLoraConfig ==
    /\ pc = "lora"
    /\ calls' = Append(calls, Returned(F_Lora))
    /\ peft_config' = Bound(LoraConfigLit)
    /\ Goto("prepare")
    /\ UNCHANGED <<fileExists, out, bnb_config, model, tokenizer, dataset,
                   training_args, trainer, saved, loadedModel, loadedTokenizer>>

\* variant: the preparation statement is missing
PrepareModel_Skipped ==
    /\ pc = "prepare"
    /\ pc' = "attach"
    /\ UNCHANGED <<exitCode, unhandled, raisedExc, handlerExc, out>>
    /\ UNCHANGED <<fileExists, calls, bnb_config, model, tokenizer, peft_config,
                   dataset, training_args, trainer, saved, loadedModel,
                   loadedTokenizer>>

\* train.py:64
PrepareModel ==
    /\ pc = "prepare"
    /\ calls' = Append(calls, Returned(F_Prepare))
    /\ model' = Bound([Val(model) EXCEPT !.prepared = TRUE])
    /\ Goto("attach")
    /\ UNCHANGED <<fileExists, out, bnb_config, tokenizer, peft_config, dataset,
                   training_args, trainer, saved, loadedModel, loadedTokenizer>>

\* train.py:65
AttachAdapter ==
    /\ pc = "attach"
    /\ calls' = Append(calls, Returned(F_Attach))
    /\ model' = Bound([Val(model) EXCEPT !.peft_config = peft_config])
    /\ Goto("load_dataset")
    /\ UNCHANGED <<fileExists, out, bnb_config, tokenizer, peft_config, dataset,
                   training_args, trainer, saved, loadedModel, loadedTokenizer>>

\* train.py:68-69
LoadDataset ==
    /\ pc = "load_dataset"
    /\ out' = Append(out, "loading_dataset")
    /\ calls' = Append(calls, Returned(F_Dataset))
    /\ dataset' = Bound([format |-> "json", data_files |-> DATASET_FILE, split |-> "train"])
    /\ Goto("training_args")
    /\ UNCHANGED <<fileExists, bnb_config, model, tokenizer, peft_config,
                   training_args, trainer, saved, loadedModel, loadedTokenizer>>

\* train.py:72-89
BuildTrainingArgs ==
    /\ pc = "training_args"
    /\ calls' = Append(calls, Returned(F_Args))
    /\ training_args' = Bound(TrainingArgumentsLit)
    /\ Goto("trainer")
    /\ UNCHANGED <<fileExists, out, bnb_config, model, tokenizer, peft_config,
                   dataset, trainer, saved, loadedModel, loadedTokenizer>>

\* train.py:92-101
BuildTrainer ==
    /\ pc = "trainer"
    /\ calls' = Append(calls, Returned(F_Trainer))
    /\ trainer' = Bound([model |-> Val(model),
                         train_dataset |-> Val(dataset),
                         peft_config |-> Val(peft_config),
                         dataset_text_field |-> "text",
                         max_seq_length |-> None,
                         tokenizer |-> Val(tokenizer),
                         args |-> Val(training_args),
                         packing |-> FALSE])
    /\ Goto("train")
    /\ UNCHANGED <<fileExists, out, bnb_config, model, tokenizer, peft_config,
                   dataset, training_args, saved, loadedModel, loadedTokenizer>>

\* train.py:103-104
Train ==
    /\ pc = "train"
    /\ out' = Append(out, "start_finetuning")
    /\ calls' = Append(calls, Returned(F_Train))
    /\ Goto("save")
    /\ UNCHANGED <<fileExists, bnb_config, model, tokenizer, peft_config,
                   dataset, training_args, trainer, saved, loadedModel,
                   loadedTokenizer>>

\* variant: the adapter is written to the trainer's checkpoint directory
Save_ToOutputDir ==
    /\ pc = "save"
    /\ out' = Append(out, "saving_adapter")
    /\ calls' = Append(calls, Returned(F_Save))
    /\ saved' = Append(saved, Val(training_args).output_dir)
    /\ pc' = "success"
    /\ UNCHANGED <<exitCode, unhandled, raisedExc, handlerExc>>
    /\ UNCHANGED <<fileExists, bnb_config, model, tokenizer, peft_config,
                   dataset, training_args, trainer, loadedModel,
                   loadedTokenizer>>

\* train.py:107-108
Save ==
    /\ pc = "save"
    /\ out' = Append(out, "saving_adapter")
    /\ calls' = Append(calls, Returned(F_Save))
    /\ saved' = Append(saved, NEW_MODEL_NAME)
    /\ Goto("success")
    /\ UNCHANGED <<fileExists, bnb_config, model, tokenizer, peft_config,
                   dataset, training_args, trainer, loadedModel,
                   loadedTokenizer>>

\* train.py:109-112, train() returns and the script ends
Finish ==
    /\ pc = "success"
    /\ out' = Append(out, "success")
    /\ pc' = "exited"
    /\ exitCode' = Bound(0)
    /\ unhandled' = FALSE
    /\ UNCHANGED <<raisedExc, handlerExc>>
    /\ UNCHANGED <<fileExists, calls, bnb_config, model, tokenizer, peft_config,
                   dataset, training_args, trainer, saved, loadedModel,
                   loadedTokenizer>>

\* variant: a failure of trainer.train is swallowed and the run goes on
ExternalRaises_TrainSwallowed ==
    /\ pc \in UnguardedCallPcs
    /\ out' = out \o PrintsBefore(pc)
    /\ \E e \in Raisable :
         /\ calls' = Append(calls, Raised(CallAt(pc), e))
         /\ IF pc = "train"
              THEN pc' = "save" /\ UNCHANGED <<exitCode, unhandled, raisedExc, handlerExc>>
              ELSE Propagate(e)
    /\ UNCHANGED <<fileExists, bnb_config, model, tokenizer, peft_config,
                   dataset, training_args, trainer, saved, loadedModel,
                   loadedTokenizer>>

\* any external call outside the try block raises: nothing catches it
ExternalRaises ==
    /\ pc \in UnguardedCallPcs
    /\ out' = out \o PrintsBefore(pc)
    /\ \E e \in Raisable :
         /\ calls' = Append(calls, Raised(CallAt(pc), e))
         /\ Propagate(e)
    /\ UNCHANGED <<fileExists, bnb_config, model, tokenizer, peft_config,
                   dataset, training_args, trainer, saved, loadedModel,
                   loadedTokenizer>>

\* train.py:44-45 raise (the attribute assignment on the loaded model
\* fails): still inside the try block, so the handler of lines 46-48 applies
ConfigAssignRaises ==
    /\ pc \in {"set_use_cache", "set_pretraining_tp"}
    /\ \E e \in Raisable : RaiseInTry(e, << >>)
    /\ UNCHANGED <<fileExists, calls, bnb_config, model, tokenizer, peft_config,
                   dataset, training_args, trainer, saved, loadedModel,
                   loadedTokenizer>>

\* train.py:51-52 raise (the attribute assignment on the tokenizer fails):
\* outside any try block
TokenizerAssignRaises ==
    /\ pc \in {"set_pad_token", "set_padding_side"}
    /\ \E e \in Raisable : Propagate(e)
    /\ UNCHANGED <<fileExists, calls, out, bnb_config, model, tokenizer,
                   peft_config, dataset, training_args, trainer, saved,
                   loadedModel, loadedTokenizer>>

Next ==
    \/ DatasetMissing
    \/ DatasetPresent
    \/ BuildBnbConfig
    \/ FromPretrainedOk
    \/ FromPretrainedRaises
    \/ SetUseCache
    \/ SetPretrainingTp
    \/ LoadTokenizer
    \/ SetPadToken
    \/ SetPaddingSide
    \/ BuildLoraConfig
    \/ PrepareModel
    \/ AttachAdapter
    \/ LoadDataset
    \/ BuildTrainingArgs
    \/ BuildTrainer
    \/ Train
    \/ Save
    \/ Finish
    \/ ExternalRaises
    \/ ConfigAssignRaises
    \/ TokenizerAssignRaises

Spec == Init /\ [][Next]_vars

\* each statement eventually runs to its end (every call returns or raises)
FairSpec == Spec /\ WF_vars(Next)


\* ---- reading the record of external calls ----
CallName(c) == c.fn
CallNames == [i \in 1..Len(calls) |-> CallName(calls[i])]
Count(f) == Cardinality({i \in 1..Len(calls) : calls[i].fn = f})
Called(f) == Count(f) > 0
DidReturn(f) == \E i \in 1..Len(calls) : calls[i] = Returned(f)
DidRaise(f) == \E i \in 1..Len(calls) : calls[i].fn = f /\ calls[i].result = "raised"
DidRaiseExc(f, e) == \E i \in 1..Len(calls) : calls[i] = Raised(f, e)
Printed(m) == \E i \in 1..Len(out) : out[i] = m
IsPrefix(s, t) == Len(s) <= Len(t) /\ \A i \in 1..Len(s) : s[i] = t[i]
Exited == pc = "exited"
LastCall == calls[Len(calls)]

AllCalls == <<F_Bnb, F_Model, F_Tok, F_Lora, F_Prepare, F_Attach, F_Dataset,
              F_Args, F_Trainer, F_Train, F_Save>>

\* every statement of train() through the save ran without raising
AllStepsCompleted ==
    /\ raisedExc = Unbound /\ handlerExc = Unbound
    /\ CallNames = AllCalls
    /\ \A i \in 1..Len(calls) : calls[i].result = "returned"

\* the tokenizer statements at train.py:50-52 have all run
TokenizerSetupDone == pc = "lora" \/ Called(F_Lora)

\* the try block at train.py:38-45 has been left normally
AcquisitionDone == pc = "load_tokenizer" \/ Called(F_Tok)

\* C1: when the dataset file is absent no external call is ever made (model
\* acquisition, tokenizer load, dataset load, trainer, train, save), nothing
\* is loaded or saved, and the process ends with exit code 1.
C1_MissingDatasetFailsFast ==
    ~fileExists =>
        /\ calls = << >>
        /\ ~Called(F_Model)
        /\ model = Unbound /\ tokenizer = Unbound /\ dataset = Unbound
        /\ trainer = Unbound /\ saved = << >>
        /\ Exited => (exitCode = Bound(1) /\ Printed("err_dataset_missing"))

C1_Witness == ~fileExists /\ Exited /\ exitCode = Bound(1) /\ out # << >>

\* C2: save_pretrained is invoked at most once, only when trainer.train has
\* already returned normally, and always with NEW_MODEL_NAME; a run in which
\* train() ran to its end (the success line is printed) made exactly one
\* such call, and it returned.
C2_SaveOnceAfterTraining ==
    /\ Count(F_Save) <= 1
    /\ \A i \in 1..Len(calls) :
         calls[i].fn = F_Save => \E j \in 1..(i - 1) : calls[j] = Returned(F_Train)
    /\ \A i \in 1..Len(saved) : saved[i] = NEW_MODEL_NAME
    /\ Len(saved) = Cardinality({i \in 1..Len(calls) : calls[i] = Returned(F_Save)})
    /\ (Printed("success") \/ pc = "success") =>
         (Count(F_Save) = 1 /\ saved = <<NEW_MODEL_NAME>>)

C2_Witness ==
    /\ exitCode = Bound(0) /\ Printed("success")
    /\ saved = <<NEW_MODEL_NAME>> /\ DidReturn(F_Train)

\* C3 as stated: whenever from_pretrained raises, whatever the exception, the
\* diagnostic is printed, the process exits with code 1 and no traceback,
\* and no later step runs.
C3_Original ==
    DidRaise(F_Model) =>
        /\ Exited /\ exitCode = Bound(1) /\ ~unhandled
        /\ Printed("err_model_load")
        /\ LastCall.fn = F_Model
        /\ tokenizer = Unbound /\ dataset = Unbound /\ saved = << >>

\* C3 amended: when from_pretrained raises an instance of Exception, the
\* handler catches it; unless building or printing the diagnostic itself
\* raises, the diagnostic is printed and the process exits with code 1 and
\* no traceback.  If line 47 raises, no diagnostic is printed and that
\* exception ends the process uncaught.  Any exception that is not an
\* instance of Exception (KeyboardInterrupt, SystemExit, GeneratorExit)
\* passes the handler, with no diagnostic, and ends the process uncaught.
\* In every case the failed acquisition is the last external call of the run.
C3_AcquisitionFailureHandled ==
    DidRaise(F_Model) =>
        /\ Exited
        /\ LastCall.fn = F_Model /\ LastCall.result = "raised"
        /\ raisedExc = Bound(LastCall.exc)
        /\ \A f \in {F_Tok, F_Prepare, F_Attach, F_Dataset, F_Trainer, F_Train, F_Save} :
             ~Called(f)
        /\ tokenizer = Unbound /\ dataset = Unbound /\ saved = << >>
        /\ (IsException(LastCall.exc) /\ handlerExc = Unbound) =>
             (exitCode = Bound(1) /\ ~unhandled /\ Printed("err_model_load"))
        /\ (IsException(LastCall.exc) /\ handlerExc # Unbound) =>
             /\ ~Printed("err_model_load")
             /\ exitCode = Bound(UncaughtStatus(Val(handlerExc)))
             /\ unhandled = UncaughtTraceback(Val(handlerExc))
        /\ ~IsException(LastCall.exc) =>
             /\ handlerExc = Unbound
             /\ ~Printed("err_model_load")
             /\ exitCode = Bound(UncaughtStatus(LastCall.exc))
             /\ unhandled = UncaughtTraceback(LastCall.exc)

C3_Witness ==
    /\ DidRaiseExc(F_Model, Exc("Exception"))
    /\ handlerExc = Unbound
    /\ Printed("err_model_load") /\ Exited

\* C4 as stated: exit code 0 only after every step through the save
\* completed; exit code 1 when the file is missing or acquisition failed.
C4_Original ==
    /\ exitCode = Bound(0) => AllStepsCompleted
    /\ (Exited /\ ~fileExists) => exitCode = Bound(1)
    /\ (Exited /\ DidRaise(F_Model)) => exitCode = Bound(1)

\* C4 amended: every run ends, and ends once.  Exit code 0 comes only after
\* all eleven external calls through the save returned normally (and the
\* success line was printed), or from a SystemExit with status 0 raised by an
\* external operation (a call, an attribute assignment, or formatting the
\* caught exception).  Exit code 1 when the file was missing, and when
\* acquisition raised an instance of Exception and the diagnostic was printed.
C4_ExitCodes ==
    /\ Exited <=> exitCode # Unbound
    /\ exitCode = Bound(0) =>
         \/ (AllStepsCompleted /\ fileExists /\ Printed("success"))
         \/ (raisedExc = Bound(SystemExitOf(0)) /\ handlerExc = Unbound)
         \/ handlerExc = Bound(SystemExitOf(0))
    /\ (Exited /\ raisedExc = Unbound /\ fileExists) =>
         (exitCode = Bound(0) /\ AllStepsCompleted)
    /\ (Exited /\ ~fileExists) => exitCode = Bound(1)
    /\ (Exited /\ DidRaiseExc(F_Model, Exc("Exception")) /\ handlerExc = Unbound) =>
         (exitCode = Bound(1) /\ Printed("err_model_load"))
    /\ handlerExc # Unbound => (Exited /\ raisedExc = Bound(Exc("Exception")))

C4_Terminates ==
    /\ []C4_ExitCodes
    /\ <>Exited
    /\ [][~Exited]_vars

C4_Witness ==
    /\ Exited /\ exitCode = Bound(0)
    /\ Len(calls) = Len(AllCalls) /\ raisedExc = Unbound

\* C5: after tokenizer setup the pad token is the end-of-sequence token when
\* the loaded tokenizer had no pad token, and is the loaded tokenizer's pad
\* token when it had one.
C5_PadTokenAliasedOnlyIfMissing ==
    TokenizerSetupDone =>
        /\ Val(loadedTokenizer).pad_token = None
             => Val(tokenizer).pad_token = Val(tokenizer).eos_token
        /\ Val(loadedTokenizer).pad_token # None
             => Val(tokenizer).pad_token = Val(loadedTokenizer).pad_token

\* C6: after tokenizer setup padding_side is "right" whatever the loaded
\* tokenizer's default was, and the tokenizer given to SFTTrainer has it too.
C6_PaddingSideRight ==
    /\ TokenizerSetupDone => Val(tokenizer).padding_side = "right"
    /\ trainer # Unbound => Val(trainer).tokenizer.padding_side = "right"

C6_Witness ==
    /\ trainer # Unbound
    /\ Val(loadedTokenizer).padding_side = "left"

\* C7: once the try block is left normally (so before the tokenizer load and
\* everything after it) use_cache is False and pretraining_tp is 1, whatever
\* the loaded model's values were; no later call is made before that.
C7_ModelFlagsForced ==
    /\ AcquisitionDone =>
         (Val(model).use_cache = FALSE /\ Val(model).pretraining_tp = 1)
    /\ \A f \in {F_Tok, F_Lora, F_Prepare, F_Attach, F_Dataset, F_Args,
                 F_Trainer, F_Train, F_Save} : Called(f) => AcquisitionDone

C7_Witness ==
    /\ pc = "load_tokenizer"
    /\ Val(loadedModel).use_cache = TRUE
    /\ Val(loadedModel).pretraining_tp # 1

\* C8: when the run reaches trainer construction, each of BitsAndBytesConfig,
\* LoraConfig and TrainingArguments has been constructed exactly once, with
\* the literal values of the script; the trainer is built with packing off.
ReachedTrainer == pc = "trainer" \/ Called(F_Trainer)

C8_ConfigsBuiltOnceWithLiterals ==
    /\ ReachedTrainer =>
         /\ fileExists
         /\ Count(F_Bnb) = 1 /\ Count(F_Lora) = 1 /\ Count(F_Args) = 1
         /\ Val(bnb_config).load_in_4bit = TRUE
         /\ Val(bnb_config).bnb_4bit_quant_type = "nf4"
         /\ Val(peft_config).r = 64
         /\ Val(peft_config).bias = "none"
         /\ Val(peft_config).task_type = "CAUSAL_LM"
         /\ Val(training_args).num_train_epochs = 1
         /\ Val(training_args).max_steps = -1
         /\ Val(training_args).learning_rate = Dec(2, -4)
         /\ Val(training_args).lr_scheduler_type = "constant"
         /\ Val(training_args).save_steps = 50
         /\ Val(training_args).logging_steps = 10
         /\ Val(training_args).output_dir = "./results"
    /\ trainer # Unbound =>
         /\ Val(trainer).packing = FALSE
         /\ Val(trainer).args = Val(training_args)
         /\ Val(trainer).peft_config = Val(peft_config)
         /\ Val(trainer).model.quantization_config = Val(bnb_config)

C8_Witness == trainer # Unbound /\ DidReturn(F_Trainer) /\ pc = "train"

\* C9 as stated: when trainer.train raises there is no retry, no save, no
\* success line, and the error ends the process as an unhandled fault
\* without exit code 0.
C9_Original ==
    DidRaise(F_Train) =>
        /\ Count(F_Train) = 1
        /\ ~Called(F_Save) /\ saved = << >>
        /\ ~Printed("success")
        /\ Exited /\ unhandled /\ exitCode # Bound(0)

\* C9 amended: when trainer.train raises, train was invoked exactly once,
\* save is never invoked, the success line is not printed, and the exception
\* leaves the script uncaught: a traceback and status 1 for an Exception or
\* GeneratorExit, death by SIGINT for KeyboardInterrupt, and for
\* SystemExit(n) status n without traceback, so the status is 0 exactly when
\* the exception is SystemExit(0).
C9_TrainingFailurePropagates ==
    /\ Count(F_Train) <= 1
    /\ DidRaise(F_Train) =>
         /\ Count(F_Train) = 1
         /\ LastCall.fn = F_Train
         /\ ~Called(F_Save) /\ saved = << >>
         /\ ~Printed("success") /\ ~Printed("saving_adapter")
         /\ Exited
         /\ raisedExc = Bound(LastCall.exc)
         /\ exitCode = Bound(UncaughtStatus(LastCall.exc))
         /\ unhandled = (LastCall.exc.class # "SystemExit")
         /\ exitCode = Bound(0) <=> LastCall.exc = SystemExitOf(0)

C9_Witness ==
    /\ DidRaiseExc(F_Train, Exc("Exception"))
    /\ unhandled /\ Printed("start_finetuning")

\* C10: model acquisition, prepare, attach, dataset load, trainer
\* construction, train and save happen in that order, each at most once; the
\* adapter is attached to a prepared model, and the trainer gets a model that
\* is prepared and carries the very adapter configuration it is also given.
OrderedCalls == <<F_Model, F_Prepare, F_Attach, F_Dataset, F_Trainer, F_Train, F_Save>>
IsOrderedCall(f) == \E i \in 1..Len(OrderedCalls) : OrderedCalls[i] = f

C10_FixedCallOrder ==
    /\ IsPrefix(SelectSeq(CallNames, IsOrderedCall), OrderedCalls)
    /\ \A i \in 1..Len(calls) :
         calls[i].fn = F_Attach => \E j \in 1..(i - 1) : calls[j] = Returned(F_Prepare)
    /\ DidReturn(F_Attach) =>
         (Val(model).prepared /\ Val(model).peft_config = peft_config)
    /\ trainer # Unbound =>
         /\ Val(trainer).model.prepared
         /\ Val(trainer).model.peft_config = Bound(Val(trainer).peft_config)
         /\ Val(trainer).model = Val(model)

C10_Witness == trainer # Unbound /\ DidReturn(F_Attach) /\ DidReturn(F_Prepare)

====
